---- MODULE Spec2Model ----
(***************************************************************************)
(* A model of TheCollector's download job: the /download command handler   *)
(* of its two variants, src/bot.py (python-telegram-bot, yt_dlp library,   *)
(* called "ptb" below) and src/bot_telethon.py (Telethon, yt-dlp           *)
(* subprocess, called "tele" below), with the progress hook of bot.py      *)
(* running as tasks of the event loop.                                     *)
(*                                                                         *)
(* Environment assumptions: replies and chat actions succeed; an edit, an  *)
(* upload and a delete of the status message may each fail; os.remove of   *)
(* an existing file succeeds. A behaviour is the life of one command, from  *)
(* its arrival to the end of the last progress task it has scheduled.      *)
(***************************************************************************)
EXTENDS Naturals, Integers, Sequences, FiniteSets, TLC

\* ------------------------------------------------------------------ bounds

MaxEvents == 2    \* progress events the tool emits in one download

\* ------------------------------------------------------- program constants

MAX_FILE_SIZE_MB == 49
MaxArgs == 3      \* the handler reads args[0], args[1], args[2]

Ceiling == MAX_FILE_SIZE_MB * 1024 * 1024

\* ------------------------------------------------------------------ values

Variants == {"ptb", "tele"}

\* Strings the code inspects are sequences of characters.
HttpUrl == <<"h", "t", "t", "p", ":", "/", "/", "x">>
HttpsUrl == <<"h", "t", "t", "p", "s", ":", "/", "/", "x">>
NotAUrl == <<"n", "o", "t", "-", "a", "-", "u", "r", "l">>
Urls == {HttpUrl, HttpsUrl, NotAUrl}

\* Characters str.isdigit() accepts: the decimal digits and other characters of
\* Unicode digit type, such as SUPERSCRIPT TWO (written "sup2").
DigitChars == {"0", "1", "5", "sup2"}
TimeTokens == {<<"1", "0">>, <<"0", ":", "5">>, <<"a", "b">>}

CommandArgs ==
  {<<>>} \cup
  {<<u>> \o t : u \in Urls,
               t \in UNION {[1..n -> TimeTokens] : n \in 0..(MaxArgs - 1)}}

None == <<>>      \* Python's None for a string-valued variable

\* A path of DOWNLOAD_PATH is <<stem, extension>>.
Paths == {<<"a", "mp4">>, <<"b", "mp4">>, <<"c", "webm">>}
Sizes == {Ceiling - 1, Ceiling, Ceiling + 1}

\* An exception: its type and the phrases its message contains.
NoExc == [type |-> "none", msg |-> {}]
DownloadErrors ==
  {[type |-> "DownloadError", msg |-> m] :
     m \in {{"Unsupported URL"}, {"Video unavailable"}, {"Unable to extract"},
            {"HTTP Error 403"}}}
OtherErrors == {[type |-> "Exception", msg |-> {"ffmpeg not found"}]}
EditError == [type |-> "TelegramError", msg |-> {"edit failed"}]
DeleteError == [type |-> "TelegramError", msg |-> {"delete failed"}]
UploadError == [type |-> "TelegramError", msg |-> {"upload failed"}]
IndexError == [type |-> "IndexError", msg |-> {"list index out of range"}]
TypeError == [type |-> "TypeError", msg |-> {"cannot unpack NoneType"}]
FileNotFoundError == [type |-> "FileNotFoundError", msg |-> {"yt-dlp"}]

\* A text of the chat: which template, and the raw text it carries.
Text(kind, raw) == [kind |-> kind, raw |-> raw]
NoText == Text("none", {})

\* A progress event of the tool (the dict d of the hook).
Event(status, text, filename) ==
  [status |-> status, text |-> text, filename |-> filename]
Events ==
  {Event("downloading", t, None) : t \in {"p1", "p2"}} \cup
  {Event("finished", "", f) : f \in {<<"a", "mp4">>, <<"c", "webm">>}} \cup
  {Event("error", "", None)}

VARIABLES
  variant,               \* which bot runs
  pc,                    \* where the handler of the current command is
  args,                  \* context.args / args
  start_time_str,
  end_time_str,
  downloaded_file_path,
  exc,                   \* the exception being handled (e), if any
  replies,               \* replies sent for the current command, in order
  status,                \* text of the processing message; NoText if none
  statusDeleted,         \* the processing message was deleted
  chat_data,             \* context.chat_data / chat_data_store[chat_id]
  disk,                  \* files of DOWNLOAD_PATH, oldest ctime first
  tool,                  \* "off", "extract", "download"
  toolRequest,           \* what the tool was invoked with
  ready,                 \* the event loop's queue of scheduled callbacks
  inflight,              \* hook tasks suspended in their edit
  obs                    \* what the current job did (history)

vars == <<variant, pc, args, start_time_str, end_time_str,
          downloaded_file_path, exc, replies, status, statusDeleted,
          chat_data, disk, tool, toolRequest, ready, inflight, obs>>


\* ------------------------------------------------------------ pure helpers

Contains(text, c) == \E i \in 1..Len(text) : text[i] = c

\* str.isdigit(): every character is a digit and there is at least one.
IsDigit(text) == Len(text) > 0 /\ \A i \in 1..Len(text) : text[i] \in DigitChars

StartsWith(text, prefix) ==
  Len(text) >= Len(prefix) /\ SubSeq(text, 1, Len(prefix)) = prefix

is_time_like(text) ==
  IF Len(text) = 0 THEN FALSE ELSE Contains(text, ":") \/ IsDigit(text)

\* url.startswith(('http://', 'https://'))
IsValidUrl_any(url) == TRUE

IsValidUrl(url) ==
  \/ StartsWith(url, <<"h", "t", "t", "p", ":", "/", "/">>)
  \/ StartsWith(url, <<"h", "t", "t", "p", "s", ":", "/", "/">>)

\* "if not context.args" / "if not args_str"
UrlMissing_never(a) == FALSE

UrlMissing(a) == Len(a) = 0

Reply(kind, token) == [kind |-> kind, token |-> token]

\* The handler's parsing of the optional start and end times.
ParseStart(a) ==
  IF Len(a) >= 2 /\ is_time_like(a[2]) THEN a[2] ELSE None

ParseEnd_unguarded(a, st) ==
  IF Len(a) >= 3 /\ is_time_like(a[3]) THEN a[3] ELSE None

ParseEnd(a, st) ==
  IF Len(a) >= 3 /\ st # None /\ is_time_like(a[3]) THEN a[3] ELSE None

ParseWarnings(a, st) ==
  (IF Len(a) >= 2 /\ ~is_time_like(a[2])
     THEN <<Reply("bad_start", a[2])>> ELSE <<>>)
  \o
  (IF Len(a) >= 3 /\ st # None /\ ~is_time_like(a[3])
     THEN <<Reply("bad_end", a[3])>> ELSE <<>>)

\* What the tool is asked to do. bot.py's downloader takes the url only and
\* passes max_filesize; bot_telethon.py's downloader_segment builds
\* --download-sections and --force-keyframes-at-cuts from the times.
NoRequest == [url |-> None, sections |-> None, keyframes |-> FALSE, max_filesize |-> 0]

ydl_opts(url) ==
  [url |-> url, sections |-> None, keyframes |-> FALSE, max_filesize |-> Ceiling]

cmd(url, st, en) ==
  IF st # None /\ en # None
    THEN [url |-> url, sections |-> <<"*">> \o st \o <<"-">> \o en,
          keyframes |-> TRUE, max_filesize |-> 0]
    ELSE IF st # None
      THEN [url |-> url, sections |-> <<"*">> \o st,
            keyframes |-> TRUE, max_filesize |-> 0]
      ELSE [url |-> url, sections |-> None, keyframes |-> FALSE, max_filesize |-> 0]

\* The mapping of a DownloadError to the text shown (bot.py).
ErrorMessage(e) ==
  IF "Unsupported URL" \in e.msg THEN Text("unsupported", {})
  ELSE IF "Video unavailable" \in e.msg THEN Text("unavailable", {})
  ELSE IF "Unable to extract" \in e.msg THEN Text("unextractable", {})
  ELSE Text("failed_to_download", e.msg)

\* ------------------------------------------------------------------- disk

Exists(d, p) == \E i \in 1..Len(d) : d[i].path = p

\* os.path.getsize of an existing file
getsize(d, p) == d[CHOOSE i \in 1..Len(d) : d[i].path = p].size

\* os.remove
Remove(d, p) ==
  LET keep == {i \in 1..Len(d) : d[i].path # p}
      F[n \in 0..Len(d)] ==
        IF n = 0 THEN <<>>
        ELSE IF n \in keep THEN Append(F[n - 1], d[n]) ELSE F[n - 1]
  IN F[Len(d)]

\* The tool writes a file: it becomes the newest of the directory.
Create(d, p, size) == Append(Remove(d, p), [path |-> p, size |-> size])

\* f.endswith(".mp4")
EndsWithMp4(p) == Len(p) > 0 /\ p[Len(p)] = "mp4"

\* [f for f in os.listdir(DOWNLOAD_PATH) if f.endswith(".mp4")], as indices
list_of_files(d) == {i \in 1..Len(d) : EndsWithMp4(d[i].path)}

\* max(list_of_files, key=os.path.getctime)
Newest(d) == d[CHOOSE i \in list_of_files(d) : \A j \in list_of_files(d) : j <= i].path

\* The resolver of bot.py's downloader: the filename the hook stored, else the
\* newest .mp4 of the directory. found is FALSE on the "couldn't find the file"
\* branch, where downloaded_file_path keeps the stored value.
ResolvePtb(d, reported) ==
  IF reported = None \/ ~Exists(d, reported)
    THEN IF list_of_files(d) # {}
           THEN [path |-> Newest(d), found |-> TRUE, scanned |-> TRUE]
           ELSE [path |-> reported, found |-> FALSE, scanned |-> TRUE]
    ELSE [path |-> reported, found |-> TRUE, scanned |-> FALSE]

\* The resolver of bot_telethon.py's downloader_segment: downloaded_file_path
\* is None when it runs, so it always scans.
ResolveTele(d) ==
  IF list_of_files(d) # {}
    THEN [path |-> Newest(d), found |-> TRUE, scanned |-> TRUE]
    ELSE [path |-> None, found |-> FALSE, scanned |-> TRUE]

\* ------------------------------------------------------------ chat data

EmptyChatData ==
  [download_filename |-> None, download_error |-> FALSE, last_progress_msg |-> ""]

\* The three pops of the handlers' finally clause.
ClearJobState(cd) == EmptyChatData

\* The finally clause: remove the file if it exists, clear the job's entries.
FinallyDisk(d, p) == IF p # None /\ Exists(d, p) THEN Remove(d, p) ELSE d

FinallyRemoved(d, p) == IF p # None /\ Exists(d, p) THEN {p} ELSE {}

\* ------------------------------------------------------------------ state

NoObs ==
  [extractCalls |-> 0, downloadCalls |-> 0, emitted |-> <<>>,
   progressEdits |-> 0, uploads |-> <<>>, removed |-> {}, scanned |-> FALSE,
   reported |-> None, file_size |-> -1, sizeExceeded |-> FALSE,
   toolExc |-> NoExc, editFailed |-> FALSE, handlerText |-> NoText,
   raised |-> NoExc, lastApplied |-> 0, other |-> "none", written |-> None]

\* DOWNLOAD_PATH outlives the bot and is shared by every job of its two
\* variants: when the command arrives it is empty or holds the file of another
\* job, one that is still uploading it or an earlier one that has left it.
InitialDisks == {<<>>, <<[path |-> <<"b", "mp4">>, size |-> Ceiling - 1]>>}

Init ==
  /\ variant \in Variants
  /\ pc = "idle"
  /\ args = <<>>
  /\ start_time_str = None
  /\ end_time_str = None
  /\ downloaded_file_path = None
  /\ exc = NoExc
  /\ replies = <<>>
  /\ status = NoText
  /\ statusDeleted = FALSE
  /\ chat_data = EmptyChatData
  /\ disk \in InitialDisks
  /\ tool = "off"
  /\ toolRequest = NoRequest
  /\ ready = <<>>
  /\ inflight = {}
  /\ obs = NoObs

\* --------------------------------------------------------------- handler

\* download_command_handler / download_command_tele_handler, from the
\* command to the point where the tool runs: the argument check, the parsing
\* of the times, then downloader / downloader_segment up to the invocation.
Receive(a) ==
  /\ pc = "idle"
  /\ args' = a
  /\ exc' = NoExc
  /\ statusDeleted' = FALSE
  /\ downloaded_file_path' = None
  /\ UNCHANGED <<variant, disk, ready, inflight>>
  /\ IF UrlMissing(a)
       THEN /\ replies' = <<Reply("usage", None)>>
            /\ pc' = "done"
            /\ obs' = NoObs
            /\ start_time_str' = None /\ end_time_str' = None
            /\ status' = NoText
            /\ tool' = "off"
            /\ toolRequest' = NoRequest
            /\ UNCHANGED chat_data
       ELSE IF Len(a) = 0
       \* args[0] of an empty list raises
       THEN /\ replies' = <<>>
            /\ pc' = "done"
            /\ obs' = [NoObs EXCEPT !.raised = IndexError]
            /\ start_time_str' = None /\ end_time_str' = None
            /\ status' = NoText
            /\ tool' = "off"
            /\ toolRequest' = NoRequest
            /\ UNCHANGED chat_data
       ELSE LET url == a[1]
                st == ParseStart(a)
                en == ParseEnd(a, st)
            IN /\ start_time_str' = st
               /\ end_time_str' = en
               /\ IF ~IsValidUrl(url)
                    THEN /\ replies' = ParseWarnings(a, st) \o <<Reply("invalid_url", None)>>
                         /\ pc' = "done"
                         /\ status' = NoText
                         /\ tool' = "off"
                         /\ toolRequest' = NoRequest
                         /\ IF variant = "ptb"
                              \* downloader returns None: unpacking it raises
                              THEN /\ obs' = [NoObs EXCEPT !.raised = TypeError]
                                   /\ UNCHANGED chat_data
                              \* (None, None): no edit, then the finally clause
                              ELSE /\ obs' = NoObs
                                   /\ chat_data' = ClearJobState(chat_data)
                    ELSE /\ replies' = ParseWarnings(a, st) \o <<Reply("processing", None)>>
                         /\ status' = Text("processing", {})
                         /\ IF variant = "ptb"
                              THEN /\ toolRequest' = ydl_opts(url)
                                   /\ tool' = "extract"
                                   /\ pc' = "await_extract"
                                   /\ obs' = [NoObs EXCEPT !.extractCalls = 1]
                                   /\ UNCHANGED chat_data
                              ELSE /\ toolRequest' = cmd(url, st, en)
                                   /\ tool' = "off"
                                   /\ pc' = "subprocess"
                                   /\ obs' = NoObs
                                   /\ chat_data' = [chat_data EXCEPT
                                                      !.download_filename = None,
                                                      !.download_error = FALSE]

\* The handler's try block up to its first await (bot.py 297-313,
\* bot_telethon.py 360-391): which edit it is about to make, or "finally" when
\* it makes none. Only bot.py compares the size with the ceiling.
HandlerBranch(v, path, d, cd) ==
  IF path # None /\ Exists(d, path)
    THEN IF v = "ptb" /\ getsize(d, path) > Ceiling
           THEN "e_toolarge" ELSE "e_complete"
    ELSE IF ~cd.download_error THEN "e_failed" ELSE "finally"

\* The status text downloader_segment writes before it returns (264-276).
TeleStatusText(cd, path) ==
  IF cd.download_error THEN Text("ytdlp_error", {})
  ELSE IF path # None THEN Text("finished_preparing", {})
  ELSE Text("download_failed_short", {})

EditPcs ==
  {"e_nofile", "e_dlerr", "e_generic", "e_overarch", "e_failed", "e_toolarge",
   "e_complete", "e_upfail", "e_unexp", "t_status"}

\* The text of the edit the handler makes at p, e being the exception handled.
EditTextAt(p, e, cd, path) ==
  CASE p = "e_nofile" -> Text("file_not_found", {})
    [] p = "e_dlerr" -> ErrorMessage(e)
    [] p = "e_generic" -> Text("processing_error", e.msg)
    [] p = "e_overarch" -> Text("unexpected", {})
    [] p = "e_failed" -> Text("download_failed", {})
    [] p = "e_toolarge" -> Text("too_large", {})
    [] p = "e_complete" -> Text("uploading", {})
    [] p = "e_upfail" -> Text("upload_failed", e.msg)
    [] p = "e_unexp" -> Text("unexpected", {})
    [] p = "t_status" -> TeleStatusText(cd, path)

\* Where the handler goes after its edit at p succeeded (ok) or raised:
\* next is a pc, "branch" (the downloader returns its pair and the handler's
\* try block starts), "finally" (the handler leaves through its finally
\* clause) or "abort" (the exception leaves the handler, no finally clause
\* being active); e is the exception handled next; raise is what leaves the
\* handler.
To(next, e, raise) == [next |-> next, e |-> e, raise |-> raise]

EditNext(v, p, ok, e) ==
  CASE p = "t_status" -> To("branch", NoExc, NoExc)
    [] p \in {"e_nofile", "e_dlerr", "e_generic"} /\ ok ->
         \* "return" with no value: the handler's unpacking raises
         To("abort", NoExc, TypeError)
    [] p = "e_nofile" /\ ~ok -> To("e_generic", EditError, NoExc)
    [] p \in {"e_dlerr", "e_generic"} /\ ~ok -> To("e_overarch", EditError, NoExc)
    [] p = "e_overarch" /\ ok -> To("branch", NoExc, NoExc)
    [] p = "e_overarch" /\ ~ok -> To("abort", NoExc, EditError)
    [] p = "e_complete" /\ ok -> To("upload", NoExc, NoExc)
    [] p \in {"e_failed", "e_toolarge", "e_upfail"} /\ ok -> To("finally", NoExc, NoExc)
    [] p \in {"e_complete", "e_failed", "e_toolarge", "e_upfail"} /\ ~ok ->
         To("e_unexp", EditError, NoExc)
    [] p = "e_unexp" /\ ok -> To("finally", NoExc, NoExc)
    [] p = "e_unexp" /\ ~ok ->
         \* bot_telethon.py guards this edit; bot.py lets it raise
         To("finally", NoExc, IF v = "ptb" THEN EditError ELSE NoExc)

\* The handler moves on: to the pc t.next names, running the finally clause
\* or leaving by an exception as t says. o and cd are obs and chat_data as
\* the step has left them so far.
Goto(t, o, cd) ==
  LET target == IF t.next = "branch"
                  THEN HandlerBranch(variant, downloaded_file_path, disk, cd)
                  ELSE t.next
      fin == target = "finally"
      sized == t.next = "branch" /\ variant = "ptb"
               /\ target \in {"e_toolarge", "e_complete"}
  IN /\ pc' = IF target \in {"finally", "abort"} THEN "done" ELSE target
     /\ exc' = t.e
     /\ disk' = IF fin THEN FinallyDisk(disk, downloaded_file_path) ELSE disk
     /\ chat_data' = IF fin THEN ClearJobState(cd) ELSE cd
     /\ obs' = [o EXCEPT
                  !.raised = t.raise,
                  !.removed = IF fin THEN @ \cup FinallyRemoved(disk, downloaded_file_path)
                              ELSE @,
                  !.file_size = IF sized THEN getsize(disk, downloaded_file_path) ELSE @,
                  !.sizeExceeded = @ \/ target = "e_toolarge"]

\* One edit of the status message by the handler or its downloader.
HandlerEdit(ok) ==
  /\ pc \in EditPcs
  /\ LET text == EditTextAt(pc, exc, chat_data, downloaded_file_path)
         o == [obs EXCEPT
                 !.handlerText = IF ok THEN text ELSE @,
                 !.editFailed = @ \/ ~ok]
     IN /\ status' = IF ok THEN text ELSE status
        /\ Goto(EditNext(variant, pc, ok, exc), o, chat_data)
  /\ UNCHANGED <<variant, args, start_time_str, end_time_str,
                 downloaded_file_path, replies, statusDeleted, tool,
                 toolRequest, ready, inflight>>

\* context.bot.send_video / client.send_file
Upload(ok) ==
  /\ pc = "upload"
  /\ Goto(IF ok THEN To("del_pm", NoExc, NoExc) ELSE To("e_upfail", UploadError, NoExc),
          [obs EXCEPT !.uploads = Append(@, downloaded_file_path)], chat_data)
  /\ UNCHANGED <<variant, args, start_time_str, end_time_str,
                 downloaded_file_path, replies, status, statusDeleted, tool,
                 toolRequest, ready, inflight>>

\* processing_message.delete() / client.delete_messages, inside the try block
\* of the upload: its failure is handled as an upload failure.
DeleteStatus(ok) ==
  /\ pc = "del_pm"
  /\ statusDeleted' = ok
  /\ Goto(IF ok THEN To("finally", NoExc, NoExc) ELSE To("e_upfail", DeleteError, NoExc),
          obs, chat_data)
  /\ UNCHANGED <<variant, args, start_time_str, end_time_str,
                 downloaded_file_path, replies, status, tool,
                 toolRequest, ready, inflight>>

\* ------------------------------------------- bot.py: the tool in the executor

NoEvent == Event("none", "", None)

\* What the event loop has queued: the first step of a hook task (id is the
\* event's position in the job's stream), or the wake-up of the handler with
\* the exception the executor's call raised.
HookItem(n, ev) == [kind |-> "hook", id |-> n, ev |-> ev, e |-> NoExc]
WakeItem(e) == [kind |-> "wake", id |-> 0, ev |-> NoEvent, e |-> e]

\* The download of the tool is invoked: ydl.download([url]) is submitted to
\* the executor (bot.py 200), subprocess.run(cmd) is called (bot_telethon.py
\* 240).
InvokeDownload_again(o) == [o EXCEPT !.downloadCalls = @ + 2]

InvokeDownload(o) == [o EXCEPT !.downloadCalls = @ + 1]

\* ydl.extract_info(url, download=False) returns or raises (193). When it
\* returns, the handler submits ydl.download([url]) (200).
ExtractReturn(e) ==
  /\ variant = "ptb" /\ pc = "await_extract" /\ tool = "extract"
  /\ IF e = NoExc
       THEN /\ tool' = "download"
            /\ pc' = "await_download"
            /\ obs' = InvokeDownload(obs)
            /\ UNCHANGED ready
       ELSE /\ tool' = "off"
            /\ pc' = "await_wake"
            /\ obs' = [obs EXCEPT !.toolExc = e]
            /\ ready' = Append(ready, WakeItem(e))
  \* of the arguments, only the url is read after the tool has been invoked
  /\ args' = <<args[1]>> /\ start_time_str' = None /\ end_time_str' = None
  /\ toolRequest' = IF e = NoExc THEN toolRequest ELSE NoRequest
  /\ UNCHANGED <<variant, downloaded_file_path, exc, replies, status,
                 statusDeleted, chat_data, disk, inflight>>

\* The tool calls the progress hook in the worker thread: the lambda of
\* ydl_opts schedules download_progress_hook on the event loop (146-151).
Emit(ev) ==
  /\ variant = "ptb" /\ tool = "download"
  /\ Len(obs.emitted) < MaxEvents
  /\ obs' = [obs EXCEPT !.emitted = Append(@, ev)]
  /\ ready' = Append(ready, HookItem(Len(obs.emitted) + 1, ev))
  /\ UNCHANGED <<variant, pc, args, start_time_str, end_time_str,
                 downloaded_file_path, exc, replies, status, statusDeleted,
                 chat_data, disk, tool, toolRequest, inflight>>

\* ydl.download returns or raises, having written f (or no file): the
\* executor's future wakes the handler through the event loop.
DownloadReturn(e, f, size) ==
  /\ variant = "ptb" /\ tool = "download"
  \* the handler reads the directory only when the tool has returned: a
  \* file left by a failed run is modelled at one size
  /\ e # NoExc => size \in {0, Ceiling - 1}
  /\ tool' = "off"
  /\ pc' = "await_wake"
  /\ disk' = IF f # None THEN Create(disk, f, size) ELSE disk
  \* written: the file this run of the tool has produced
  /\ obs' = [obs EXCEPT !.toolExc = e, !.written = f]
  /\ ready' = Append(ready, WakeItem(e))
  /\ toolRequest' = NoRequest
  /\ UNCHANGED <<variant, args, start_time_str, end_time_str,
                 downloaded_file_path, exc, replies, status, statusDeleted,
                 chat_data, inflight>>

\* ------------------------------------------------ bot.py: the progress hook

HookText(ev) ==
  CASE ev.status = "downloading" -> Text("progress", {ev.text})
    [] ev.status = "finished" -> Text("finished_preparing", {})
    [] ev.status = "error" -> Text("ytdlp_error", {})

\* Whether the hook edits for a 'downloading' event (387-388).
ProgressChanged(cd, ev) == cd.last_progress_msg # ev.text

\* download_progress_hook from its start to its await of edit_message_text.
HookStep ==
  /\ ready # <<>> /\ Head(ready).kind = "hook"
  /\ LET t == Head(ready)
         ev == t.ev
     IN /\ ready' = Tail(ready)
        /\ CASE ev.status = "downloading" ->
                  IF ProgressChanged(chat_data, ev)
                    THEN /\ inflight' = inflight \cup {t}
                         /\ obs' = [obs EXCEPT !.progressEdits = @ + 1]
                         /\ UNCHANGED chat_data
                    ELSE UNCHANGED <<inflight, obs, chat_data>>
             [] ev.status = "finished" ->
                  /\ chat_data' = IF ev.filename # None
                                    THEN [chat_data EXCEPT !.download_filename = ev.filename]
                                    ELSE chat_data
                  /\ inflight' = inflight \cup {t}
                  /\ UNCHANGED obs
             [] ev.status = "error" ->
                  /\ chat_data' = [chat_data EXCEPT !.download_error = TRUE]
                  /\ inflight' = inflight \cup {t}
                  /\ UNCHANGED obs
  /\ UNCHANGED <<variant, pc, args, start_time_str, end_time_str,
                 downloaded_file_path, exc, replies, status, statusDeleted,
                 disk, tool, toolRequest>>

\* The hook's edit completes or raises, and the hook runs to its end. An edit
\* of a deleted message raises.
HookEditDone(t, ok) ==
  /\ t \in inflight
  /\ ok => ~statusDeleted
  /\ inflight' = inflight \ {t}
  /\ status' = IF ok THEN HookText(t.ev) ELSE status
  /\ chat_data' =
       CASE t.ev.status = "downloading" ->
              IF ok THEN [chat_data EXCEPT !.last_progress_msg = t.ev.text]
              ELSE chat_data
         [] t.ev.status = "finished" -> [chat_data EXCEPT !.last_progress_msg = ""]
         [] t.ev.status = "error" -> chat_data
  \* lastApplied: the position in the stream of the event whose edit was
  \* applied last
  /\ obs' = IF ok THEN [obs EXCEPT !.lastApplied = t.id] ELSE obs
  /\ UNCHANGED <<variant, pc, args, start_time_str, end_time_str,
                 downloaded_file_path, exc, replies, statusDeleted,
                 disk, tool, toolRequest, ready>>

\* The handler resumes in downloader after its await of the executor: the
\* resolver (210-223) when the tool returned, the except clauses (227-241)
\* when it raised.
HandlerWake ==
  /\ pc = "await_wake"
  /\ ready # <<>> /\ Head(ready).kind = "wake"
  /\ ready' = Tail(ready)
  /\ LET e == Head(ready).e
         reported == chat_data.download_filename
         cd == [chat_data EXCEPT !.download_filename = None]
         r == ResolvePtb(disk, reported)
     IN IF e = NoExc
          THEN /\ downloaded_file_path' = r.path
               /\ LET o == [obs EXCEPT !.scanned = r.scanned, !.reported = reported]
                      target == IF r.found
                                  THEN HandlerBranch(variant, r.path, disk, cd)
                                  ELSE "e_nofile"
                  IN /\ pc' = target
                     /\ obs' = [o EXCEPT
                                  !.file_size = IF r.found THEN getsize(disk, r.path) ELSE @,
                                  !.sizeExceeded = target = "e_toolarge"]
               /\ chat_data' = cd
               /\ exc' = NoExc
          ELSE /\ pc' = IF e.type = "DownloadError" THEN "e_dlerr" ELSE "e_generic"
               /\ exc' = e
               /\ UNCHANGED <<downloaded_file_path, chat_data, obs>>
  /\ UNCHANGED <<variant, args, start_time_str, end_time_str,
                 replies, status, statusDeleted, disk, tool, toolRequest, inflight>>

\* ------------------------------------- bot_telethon.py: the tool subprocess

\* How the subprocess ended: exit status 0, a non-zero exit status with the
\* error the tool printed, or subprocess.run raising because there is no tool.
ExitFailures ==
  {[type |-> "ExitStatus", msg |-> e.msg] : e \in DownloadErrors}

\* subprocess.run(cmd) and the rest of downloader_segment's try block
\* (240-262). No progress hook is wired to the subprocess: the filename the
\* tool reports (rep) reaches nobody.
SubprocessRun(e, f, size, rep) ==
  /\ variant = "tele" /\ pc = "subprocess"
  /\ e = FileNotFoundError => f = None /\ rep = None
  /\ LET d == IF f # None THEN Create(disk, f, size) ELSE disk
         r == ResolveTele(d)
         ran == e # FileNotFoundError
     IN /\ disk' = d
        /\ downloaded_file_path' = IF ran THEN r.path ELSE None
        /\ chat_data' = IF ran /\ ~r.found
                          THEN [chat_data EXCEPT !.download_error = TRUE]
                          ELSE chat_data
        /\ obs' = [InvokeDownload(obs) EXCEPT
                     !.toolExc = e,
                     !.written = f,
                     !.emitted = IF rep # None THEN <<Event("finished", "", rep)>> ELSE <<>>,
                     !.reported = rep,
                     !.scanned = ran,
                     !.file_size = IF ran /\ r.found THEN getsize(d, r.path) ELSE @]
  /\ pc' = "t_status"
  \* of the arguments, only the url is read after the subprocess has run
  /\ args' = <<args[1]>> /\ start_time_str' = None /\ end_time_str' = None
  /\ toolRequest' = NoRequest
  /\ UNCHANGED <<variant, exc, replies, status, statusDeleted, tool,
                 ready, inflight>>

\* ------------------------------------------------- another inbound event

\* The tool of the job is running: in the executor's thread (bot.py 193, 200),
\* or as the subprocess the handler waits for (bot_telethon.py 240).
ToolRunning == IF variant = "ptb" THEN tool # "off" ELSE pc = "subprocess"

\* Whether the handler of another inbound event can run now. In
\* bot_telethon.py every event gets a task of its own, which runs whenever the
\* event loop does: at every await of this handler, but not inside
\* subprocess.run, which returns only when the tool has ended. In bot.py the
\* Application is built without concurrent_updates (463) and the handlers are
\* blocking CommandHandlers (466-468): the next update is processed when the
\* handler of this one has returned or raised.
CanHandleOther ==
  IF variant = "ptb" THEN pc \in {"idle", "done"} ELSE pc # "subprocess"

\* Another chat sends a command (/start, /help) while the tool is running.
InboundOther ==
  /\ ToolRunning /\ obs.other = "none"
  /\ obs' = [obs EXCEPT !.other = "queued"]
  /\ UNCHANGED <<variant, pc, args, start_time_str, end_time_str,
                 downloaded_file_path, exc, replies, status, statusDeleted,
                 chat_data, disk, tool, toolRequest, ready, inflight>>

\* start_command / help_command of the other chat runs to its end: no event
\* is waiting any more.
HandleOther ==
  /\ obs.other = "queued" /\ CanHandleOther
  /\ obs' = [obs EXCEPT !.other = "none"]
  /\ UNCHANGED <<variant, pc, args, start_time_str, end_time_str,
                 downloaded_file_path, exc, replies, status, statusDeleted,
                 chat_data, disk, tool, toolRequest, ready, inflight>>

\* ------------------------------------------------------------ specification

\* What a run of the tool leaves in DOWNLOAD_PATH: nothing, or one file.
Written ==
  {[path |-> None, size |-> 0]} \cup [path : Paths, size : Sizes]

\* How ydl.download ends in the model: it returns, or raises an error of one
\* of two kinds (extract_info raises the errors of every category).
DownloadOutcomes ==
  {NoExc, [type |-> "DownloadError", msg |-> {"HTTP Error 403"}]} \cup OtherErrors

Next ==
  \/ \E a \in CommandArgs : Receive(a)
  \/ \E e \in {NoExc} \cup DownloadErrors \cup OtherErrors : ExtractReturn(e)
  \/ \E ev \in Events : Emit(ev)
  \/ \E e \in DownloadOutcomes, w \in Written :
       DownloadReturn(e, w.path, w.size)
  \/ HookStep
  \/ \E t \in inflight, ok \in BOOLEAN : HookEditDone(t, ok)
  \/ HandlerWake
  \/ \E e \in {NoExc, FileNotFoundError} \cup ExitFailures, w \in Written :
       \E rep \in {None, w.path} : SubprocessRun(e, w.path, w.size, rep)
  \/ \E ok \in BOOLEAN : HandlerEdit(ok)
  \/ \E ok \in BOOLEAN : Upload(ok)
  \/ \E ok \in BOOLEAN : DeleteStatus(ok)
  \/ InboundOther
  \/ HandleOther

Spec == Init /\ [][Next]_vars

\* ------------------------------------------- is_time_like over all strings

MaxLen == 3       \* length of the strings is_time_like is applied to

\* ':', decimal digits, a letter, and a digit that is not decimal.
TimeChars == {"0", "5", ":", "a", "sup2"}

Strings == UNION {[1..n -> TimeChars] : n \in 0..MaxLen}

\* is_time_like of bot_telethon.py (73-76).
is_time_like_tele(text) ==
  IF Len(text) = 0 THEN FALSE ELSE Contains(text, ":") \/ IsDigit(text)

\* A command whose second token is any string.
InitTime ==
  /\ variant \in Variants
  /\ pc = "classify"
  /\ args \in {<<HttpsUrl, s>> : s \in Strings}
  /\ start_time_str = None
  /\ end_time_str = None
  /\ downloaded_file_path = None
  /\ exc = NoExc
  /\ replies = <<>>
  /\ status = NoText
  /\ statusDeleted = FALSE
  /\ chat_data = EmptyChatData
  /\ disk = <<>>
  /\ tool = "off"
  /\ toolRequest = NoRequest
  /\ ready = <<>>
  /\ inflight = {}
  /\ obs = NoObs

\* The handler classifies its second token (bot.py 280-285, bot_telethon.py
\* 337-342): a time-like token becomes start_time_str, any other draws the
\* warning.
ClassifyStart ==
  /\ pc = "classify"
  /\ pc' = "classified"
  /\ LET s == args[2]
         result == IF variant = "ptb" THEN is_time_like(s) ELSE is_time_like_tele(s)
     IN /\ start_time_str' = IF result THEN s ELSE None
        /\ replies' = IF result THEN <<>> ELSE <<Reply("bad_start", s)>>
  /\ UNCHANGED <<variant, args, end_time_str, downloaded_file_path, exc,
                 status, statusDeleted, chat_data, disk, tool, toolRequest,
                 ready, inflight, obs>>

NextTime == ClassifyStart

SpecTime == InitTime /\ [][NextTime]_vars

\* ------------------------------------------------------------------ claims

ToolInvoked == obs.extractCalls + obs.downloadCalls > 0

Resolved == obs.file_size >= 0

Warnings == SelectSeq(replies, LAMBDA r : r.kind \in {"bad_start", "bad_end"})

\* The filename of the last 'finished' event of a stream, None if it has none.
LastFinished(em) ==
  LET fin == {i \in 1..Len(em) : em[i].status = "finished"}
  IN IF fin = {} THEN None
     ELSE em[CHOOSE i \in fin : \A j \in fin : j <= i].filename

\* C1: in both variants, an artifact larger than the ceiling is never uploaded,
\* and the handler reports "too large" on the status message (the report is
\* asked for only of runs in which no edit of the handler failed).
C1_OversizeNeverUploaded ==
  (Resolved /\ obs.file_size > Ceiling) =>
    /\ obs.uploads = <<>>
    /\ (pc = "done" /\ ~obs.editFailed) => obs.handlerText = Text("too_large", {})

\* C2: when bot.py's handler has taken the size-exceeded branch and has
\* returned, the artifact is still on disk.
C2_OversizeFileKept ==
  (variant = "ptb" /\ pc = "done" /\ obs.sizeExceeded) =>
    Exists(disk, downloaded_file_path)

\* C3: for an artifact at or under the ceiling the handler attempts the upload,
\* and when it has ended the file is gone.
C3_UploadedAndRemoved ==
  (pc = "done" /\ Resolved /\ obs.file_size <= Ceiling) =>
    /\ obs.uploads # <<>>
    /\ ~Exists(disk, downloaded_file_path)

\* C4: when every event of the job is a 'downloading' event of one and the
\* same text, the progress hook issues at most one edit.
C4_IdenticalProgressOneEdit ==
  (\A i \in 1..Len(obs.emitted) :
     /\ obs.emitted[i].status = "downloading"
     /\ obs.emitted[i].text = obs.emitted[1].text)
  => obs.progressEdits <= 1

\* C5: a command without arguments gets the usage reply and nothing else: the
\* handler has ended, no status message exists, the tool was not invoked.
C5_MissingUrlUsageOnly ==
  (pc # "idle" /\ args = <<>>) =>
    /\ pc = "done"
    /\ replies = <<Reply("usage", None)>>
    /\ obs.raised = NoExc
    /\ status = NoText
    /\ ~ToolInvoked /\ toolRequest = NoRequest

C5_Witness ==
  pc = "done" /\ args = <<>> /\ replies = <<Reply("usage", None)>>

C6_FirstTokenNoUrl ==
  /\ pc # "idle" /\ Len(args) >= 1
  /\ ~StartsWith(args[1], <<"h", "t", "t", "p", ":", "/", "/">>)
  /\ ~StartsWith(args[1], <<"h", "t", "t", "p", "s", ":", "/", "/">>)

C7_NoEndWithoutStart ==
  /\ (Len(args) >= 2 /\ ~is_time_like(args[2])) =>
       /\ start_time_str = None
       /\ end_time_str = None
       /\ Warnings = <<Reply("bad_start", args[2])>>
  /\ end_time_str # None => start_time_str # None

C7_Witness ==
  /\ Len(args) = 3 /\ ~is_time_like(args[2]) /\ is_time_like(args[3])
  /\ pc \in {"await_extract", "subprocess"}
  /\ start_time_str = None /\ end_time_str = None

\* C8: in both variants, when the tool has returned and the file its last
\* 'finished' event names exists, the resolver returns that path and does not
\* scan the directory.
C8_ReportedFileResolved ==
  (/\ pc \in {"e_nofile", "e_toolarge", "e_complete", "t_status"}
   /\ obs.toolExc = NoExc
   /\ LastFinished(obs.emitted) # None
   /\ Exists(disk, LastFinished(obs.emitted)))
  => /\ downloaded_file_path = LastFinished(obs.emitted)
     /\ ~obs.scanned

\* C9: in both variants the tool is invoked with the range start-end when the
\* second and third tokens are time-like, and with the range from start when
\* only the second is.
C9_TrimmedRange ==
  (toolRequest # NoRequest /\ Len(args) >= 2 /\ is_time_like(args[2])) =>
    IF Len(args) >= 3 /\ is_time_like(args[3])
      THEN toolRequest.sections = <<"*">> \o args[2] \o <<"-">> \o args[3]
      ELSE toolRequest.sections = <<"*">> \o args[2]

\* C10: in both variants, when the tool has failed, the text the handler has
\* written is the one of the failure's category, or else a generic text
\* carrying the raw error text (asked for only of runs in which no edit of the
\* handler failed).
C10_FailureTexts ==
  (pc = "done" /\ obs.toolExc # NoExc /\ ~obs.editFailed) =>
    LET m == obs.toolExc.msg
        t == obs.handlerText
    IN /\ "Unsupported URL" \in m => t = Text("unsupported", {})
       /\ "Video unavailable" \in m => t = Text("unavailable", {})
       /\ "Unable to extract" \in m => t = Text("unextractable", {})
       /\ m \cap {"Unsupported URL", "Video unavailable", "Unable to extract"} = {}
            => t.kind \in {"failed_to_download", "processing_error"} /\ t.raw = m

\* The texts that tell the user that the download produced no file.
NoOutputTexts == {"file_not_found", "download_failed", "download_failed_short"}

\* C11: when the tool has returned and neither the reported filename nor the
\* scan of the directory yields a file, nothing is uploaded, nothing is
\* deleted, and the text the handler has written is a 'no output produced'
\* text (the text is asked for only of runs in which no edit of the handler
\* failed).
C11_NoOutputReported ==
  (obs.toolExc = NoExc /\ obs.scanned /\ ~Resolved) =>
    /\ obs.uploads = <<>>
    /\ obs.removed = {}
    /\ (pc = "done" /\ ~obs.editFailed) => obs.handlerText.kind \in NoOutputTexts

\* A processing status message was created for the command.
JobCreated == \E i \in 1..Len(replies) : replies[i].kind = "processing"

\* The handler has ended and every progress task it has scheduled has run.
JobOver == pc = "done" /\ tool = "off" /\ ready = <<>> /\ inflight = {}

\* C12: when a job for which a status message was created has ended and all
\* of its progress tasks have run, the stored filename, the error flag and the
\* last progress text of the chat are absent.
C12_JobStateCleared ==
  (JobCreated /\ JobOver) => chat_data = EmptyChatData

\* The first token is an http(s) URL: the request is accepted.
C13_Accepted ==
  /\ pc # "idle" /\ Len(args) >= 1
  /\ \/ StartsWith(args[1], <<"h", "t", "t", "p", ":", "/", "/">>)
     \/ StartsWith(args[1], <<"h", "t", "t", "p", "s", ":", "/", "/">>)

\* There is no first token, or it is no http(s) URL: the request is rejected.
C13_Rejected == pc # "idle" /\ ~C13_Accepted

\* bot.py's extract_info has raised: the download was never submitted.
C13_ExtractFailed ==
  variant = "ptb" /\ obs.extractCalls = 1 /\ obs.downloadCalls = 0
  /\ obs.toolExc # NoExc

\* C13 as stated: the download of the tool is invoked exactly once for every
\* accepted request that has been handled, never more than once, and not at
\* all for a rejected request.
C13_DownloadExactlyOnce ==
  /\ obs.downloadCalls <= 1
  /\ (C13_Accepted /\ pc = "done") => obs.downloadCalls = 1
  /\ C13_Rejected => ~ToolInvoked

\* C13 as amended: the download of the tool is invoked at most once; for an
\* accepted request that has been handled it is invoked exactly once unless
\* bot.py's extraction of the metadata has raised, and then not at all; the
\* tool is not invoked for a rejected request.
C13_DownloadOnceUnlessExtractFails ==
  /\ obs.downloadCalls <= 1
  /\ (C13_Accepted /\ pc = "done") =>
       (obs.downloadCalls = 1 \/ C13_ExtractFailed)
  /\ (C13_Accepted /\ pc \in {"await_download", "t_status"}) =>
       obs.downloadCalls = 1
  /\ C13_Rejected => ~ToolInvoked

C13_Witness ==
  /\ C13_Accepted /\ pc = "done" /\ C13_ExtractFailed
  /\ obs.handlerText = Text("unavailable", {})

\* C14: a failed edit of the status message is swallowed: the handler never
\* handles the exception of an edit, none leaves the handler, and a job whose
\* file was resolved (and not found too large) still uploads it although an
\* edit has failed.
C14_EditsBestEffort ==
  /\ exc # EditError
  /\ obs.raised # EditError
  /\ (pc = "done" /\ obs.editFailed /\ Resolved /\ ~obs.sizeExceeded) =>
       /\ obs.uploads # <<>>
       /\ ~Exists(disk, downloaded_file_path)

\* C15: after a successful upload a failure of the delete of the status
\* message is tolerated silently: the handler never handles it as an error,
\* writes no upload-failure text carrying it, and still removes the file.
C15_DeleteFailureTolerated ==
  /\ exc # DeleteError
  /\ obs.handlerText # Text("upload_failed", DeleteError.msg)
  /\ (pc = "done" /\ obs.uploads # <<>>) => ~Exists(disk, downloaded_file_path)

\* The decimal digits among the characters of the strings.
DecimalDigits == {"0", "1", "5"}

\* A string is non-empty and contains ':' or consists of decimal digits.
TimeLikeAsStated(s) ==
  /\ Len(s) > 0
  /\ Contains(s, ":") \/ \A i \in 1..Len(s) : s[i] \in DecimalDigits

\* C16: the handler takes its second token for a time exactly when the token
\* is non-empty and contains ':' or consists entirely of decimal digits, and
\* the is_time_like of the two variants agree on the token.
C16_TimeLikeIffColonOrDecimal ==
  pc = "classified" =>
    /\ (replies = <<>>) <=> TimeLikeAsStated(args[2])
    /\ is_time_like(args[2]) = is_time_like_tele(args[2])

\* C17: at most one edit of the status message issued by the progress hook
\* is outstanding at any time.
C17_OneOutstandingEdit == Cardinality(inflight) <= 1

\* C18: the edits of the progress hook are applied in the order in which the
\* tool emitted their events: the position of the event whose edit was applied
\* last never decreases.
C18_EditsInEmissionOrder ==
  [][obs'.lastApplied >= obs.lastApplied]_vars

\* C19: while the tool of a job is running, the handling of another inbound
\* event that has arrived can begin and complete.
C19_ResponsiveDuringTool ==
  (ToolRunning /\ obs.other = "queued") => ENABLED HandleOther

\* C20: a job uploads and deletes only the file that its own run of the tool
\* has produced, never a file of another job in the shared directory.
C20_OwnArtifactOnly ==
  /\ \A i \in 1..Len(obs.uploads) : obs.uploads[i] = obs.written
  /\ obs.removed \subseteq {obs.written}

\* The hook task of the k-th event of the stream has run to its end: it is
\* neither waiting for the event loop nor suspended in its edit.
Handled(k) ==
  /\ k \in 1..Len(obs.emitted)
  /\ \A n \in 1..Len(ready) : ready[n].id # k
  /\ \A t \in inflight : t.id # k

\* C21: when the hook has handled a 'finished' event, the dedup entry
\* (last_progress_msg) is absent, and stays absent until a 'downloading' event
\* that was emitted after the 'finished' one has been handled.
C21_DedupClearedOnFinished ==
  \A k \in 1..Len(obs.emitted) :
    (obs.emitted[k].status = "finished" /\ Handled(k)
       /\ chat_data.last_progress_msg # "") =>
      \E j \in (k + 1)..Len(obs.emitted) :
        obs.emitted[j].status = "downloading" /\ Handled(j)

\* The hook has run the first step of the task of an 'error' event.
ErrorEventSeen ==
  \E k \in 1..Len(obs.emitted) :
    /\ obs.emitted[k].status = "error"
    /\ \A n \in 1..Len(ready) : ready[n].id # k

\* The first step of the hook task at the head of the event loop's queue is
\* the one of an 'error' event.
ErrorEventNext ==
  ready # <<>> /\ Head(ready).kind = "hook" /\ Head(ready).ev.status = "error"

\* The step of the hook for an 'error' event issues one edit, of the 'error
\* during download' text, and sets the error flag.
C22_HookStepOnError ==
  [][(ErrorEventNext /\ ready' = Tail(ready)) =>
       /\ inflight' = inflight \cup {Head(ready)}
       /\ HookText(Head(ready).ev) = Text("ytdlp_error", {})
       /\ chat_data'.download_error]_vars

\* While the flag is set the handler does not write the generic text.
C22_NoGenericText ==
  /\ chat_data.download_error => pc # "e_failed"
  /\ ErrorEventSeen => obs.handlerText.kind # "download_failed"

\* C22: once the hook has handled an 'error' event the error flag is set
\* until the job ends; while it is set the handler does not write the generic
\* 'download failed' text; when the job has ended the flag is cleared.
C22_ErrorFlagProtocol ==
  /\ (ErrorEventSeen /\ pc # "done") => chat_data.download_error
  /\ C22_NoGenericText
  /\ pc = "done" => ~chat_data.download_error

\* C23: whatever the outcome of the downloader, the handler receives a pair
\* and no exception leaves the handler, as long as no edit of the status
\* message has failed.
C23_NoExceptionLeavesHandler ==
  ~obs.editFailed => obs.raised = NoExc

\* The handler has written its status after the download: the 'uploading'
\* text (bot.py 313), the upload-failure text (337), or it has deleted the
\* status message (332).
PostDownloadStatus ==
  \/ obs.handlerText.kind \in {"uploading", "upload_failed"}
  \/ statusDeleted

\* C24: once the handler has written its status after the download, no edit
\* of a hook task is applied to the status message.
C24_NoHookEditAfterHandlerStatus ==
  [][PostDownloadStatus => obs'.lastApplied = obs.lastApplied]_vars

\* C25: a job whose run of the tool has failed (an exception of the library,
\* a non-zero exit status or no tool to run) and has written no file uploads
\* no file and removes no file, whatever the download directory holds.
C25_FailedJobTouchesNoFile ==
  (obs.toolExc # NoExc /\ obs.written = None) =>
    (obs.uploads = <<>> /\ obs.removed = {})

====
